---- MODULE Spec2Model ----
(***************************************************************************)
(* Customer service (MS1): the customer record store, the validation       *)
(* middleware, the CustomerController handlers and the asynchronous        *)
(* compliance trigger, as a state machine.  Every handler is cut at its    *)
(* awaits on the store, so that concurrent requests interleave exactly     *)
(* where the Node.js event loop lets them.                                 *)
(***************************************************************************)
EXTENDS Integers, Sequences, FiniteSets, TLC

\* ---------------------------------------------------------------- bounds
MaxCustomers == 2   \* records the store may hold
MaxReq == 2         \* requests in flight at once
MaxTasks == 2       \* compliance triggers pending at once
MaxDocs == 1        \* documents a record holds when an addDocument starts
MaxRequests == 3    \* requests a behaviour receives
MaxStored == 21     \* records the store holds when the searches start

NULL == "null"

\* ------------------------------------------------------- character strings
\* A string is a sequence of one-character strings, so that trimming and
\* lowercasing are computed, not assumed.
Upper == {"A", "B", "X"}
Lowers == {"a", "b", "x", "c", "o"}
Digits == {"1", "2", "3", "4", "5", "6", "7", "8", "9"}
WordChars == Upper \cup Lowers \cup Digits

LowerChar(c) ==
  CASE c = "A" -> "a"
    [] c = "B" -> "b"
    [] c = "X" -> "x"
    [] OTHER -> c

ToLower(s) == [i \in DOMAIN s |-> LowerChar(s[i])]

RECURSIVE TrimLeft(_)
TrimLeft(s) == IF s # <<>> /\ Head(s) = " " THEN TrimLeft(Tail(s)) ELSE s

RECURSIVE TrimRight(_)
TrimRight(s) ==
  IF s # <<>> /\ s[Len(s)] = " " THEN TrimRight(SubSeq(s, 1, Len(s) - 1)) ELSE s

Trim(s) == TrimRight(TrimLeft(s))

\* (mutant) a conversion that trims and keeps the case
JoiEmailTrimOnly(s) == Trim(s)

\* Joi: string().email().lowercase().trim() with convert: true
JoiEmailConvert(s) == ToLower(Trim(s))

AtPositions(s) == {i \in DOMAIN s : s[i] = "@"}
LocalPart(s) == SubSeq(s, 1, (CHOOSE i \in AtPositions(s) : TRUE) - 1)
DomainPart(s) == SubSeq(s, (CHOOSE i \in AtPositions(s) : TRUE) + 1, Len(s))
LastDot(s) == CHOOSE i \in DOMAIN s : s[i] = "." /\ \A j \in DOMAIN s : s[j] = "." => j <= i

\* Joi's email rule on the converted value: one "@", a local part of atext
\* characters, a domain of at least two dot-separated labels.
JoiIsEmail(s) ==
  /\ Cardinality(AtPositions(s)) = 1
  /\ LET l == LocalPart(s)
         d == DomainPart(s)
     IN /\ l # <<>>
        /\ \A i \in DOMAIN l : l[i] \in WordChars \cup {"+", ".", "-"}
        /\ l[1] # "." /\ l[Len(l)] # "."
        /\ d # <<>>
        /\ \A i \in DOMAIN d : d[i] \in WordChars \cup {".", "-"}
        /\ \E i \in DOMAIN d : d[i] = "."
        /\ d[1] \in WordChars /\ d[Len(d)] \in WordChars
        /\ \A i \in 1..(Len(d) - 1) : ~(d[i] = "." /\ d[i + 1] = ".")

\* \w+([.-]?\w+)* : word characters, single "." or "-" separators inside
WordRuns(s) ==
  /\ s # <<>>
  /\ \A i \in DOMAIN s : s[i] \in WordChars \cup {".", "-"}
  /\ s[1] \in WordChars /\ s[Len(s)] \in WordChars
  /\ \A i \in 1..(Len(s) - 1) : s[i] \in WordChars \/ s[i + 1] \in WordChars

\* customerSchema.email.match:
\*   /^\w+([.-]?\w+)*@\w+([.-]?\w+)*(\.\w{2,3})+$/
MongooseEmailMatch(s) ==
  /\ Cardinality(AtPositions(s)) = 1
  /\ WordRuns(LocalPart(s))
  /\ LET d == DomainPart(s)
     IN /\ WordRuns(d)
        /\ \E i \in DOMAIN d : d[i] = "."
        /\ LET tld == SubSeq(d, LastDot(d) + 1, Len(d))
           IN /\ Len(tld) \in 2..3
              /\ \A i \in DOMAIN tld : tld[i] \in WordChars
              /\ LastDot(d) > 1

\* customerSchema.email setters: lowercase: true, trim: true
MongooseEmailSet(s) == ToLower(Trim(s))

\* ------------------------------------------------------------------ dates
\* A date is a calendar day [y, m, d]; Today is the day on which the requests
\* of a behaviour are handled (new Date() in the validators).
Today == [y |-> 2026, m |-> 11, d |-> 3]

DateLeq(a, b) ==
  \/ a.y < b.y
  \/ a.y = b.y /\ a.m < b.m
  \/ a.y = b.y /\ a.m = b.m /\ a.d <= b.d

\* createCustomerSchema.dateOfBirth custom rule: the age it computes
JoiAge(value, today) ==
  LET age == today.y - value.y
      monthDiff == today.m - value.m
  IN IF monthDiff < 0 \/ (monthDiff = 0 /\ today.d < value.d) THEN age - 1 ELSE age

\* Joi.date().max('now') followed by the custom rule
JoiDobValid(value, today) ==
  /\ DateLeq(value, today)
  /\ JoiAge(value, today) >= 18
  /\ JoiAge(value, today) <= 120

\* customerSchema.dateOfBirth.validate.validator: year subtraction only
MongooseDobValid(value, today) ==
  LET age == today.y - value.y
  IN age >= 18 /\ age <= 120

\* ----------------------------------------------------------------- inputs
EmailA == <<"a", "@", "x", ".", "c", "o">>
EmailACaps == <<"A", "@", "X", ".", "c", "o">>
EmailASpaced == <<" ", "a", "@", "x", ".", "c", "o", " ">>
EmailB == <<"b", "@", "x", ".", "c", "o">>
EmailPlus == <<"a", "+", "b", "@", "x", ".", "c", "o">>
EmailNoAt == <<"a", "x", ".", "c", "o">>
RawEmails == {EmailA, EmailACaps, EmailASpaced, EmailB, EmailPlus, EmailNoAt}

NatId1 == <<"1", "2", "3", "4", "5", "6", "7", "8">>
NatId2 == <<"8", "7", "6", "5", "4", "3", "2", "1">>
NatIdShort == <<"1", "2", "3">>
RawNatIds == {NatId1, NatId2, NatIdShort}

DobAdult == [y |-> 1990, m |-> 1, d |-> 1]
DobExactly18 == [y |-> 2008, m |-> 11, d |-> 3]
DobDayShort == [y |-> 2008, m |-> 11, d |-> 4]
DobOld120 == [y |-> 1905, m |-> 12, d |-> 1]
DobOld121 == [y |-> 1905, m |-> 11, d |-> 3]
DobFuture == [y |-> 2026, m |-> 11, d |-> 4]
RawDobs == {DobAdult, DobExactly18, DobDayShort, DobOld120, DobOld121, DobFuture}

FirstNames == {"Ana", "Bea"}

DocTypes == {"national_id", "passport", "driving_license",
             "address_proof", "income_proof", "other"}
\* (mutant) every document type triggers a compliance check
EveryDocType == DocTypes

\* the types after which addKycDocument triggers a compliance check
IdentityDocTypes == {"national_id", "passport", "driving_license"}

CustomerStatuses == {"active", "inactive", "suspended", "pending_verification"}
ComplianceStatuses == {"pending", "approved", "rejected", "under_review"}

\* the data of a response that carries none
Nothing == [nothing |-> TRUE]

\* ------------------------------------------------------ validation layer
\* The model's request bodies are JSON objects: functions from key names to
\* values.  lastName and phone are always present and valid; of the address
\* the model keeps city (required, as street, state and postalCode are) and
\* country.
CreateKnownKeys == {"firstName", "email", "nationalId", "dateOfBirth", "documents",
                    "address", "preferences"}

Languages == {"es", "en"}
Currencies == {"COP", "USD", "EUR"}

\* addressSchema: country has a default
JoiAddress(a) ==
  [city |-> IF "city" \in DOMAIN a THEN a.city ELSE NULL,
   country |-> IF "country" \in DOMAIN a THEN a.country ELSE "Colombia"]

JoiAddressValid(a) == "city" \in DOMAIN a

\* notificationPreferencesSchema: every flag has a default
JoiNotificationPreferences(n) ==
  [email |-> IF "email" \in DOMAIN n THEN n.email ELSE TRUE,
   sms |-> IF "sms" \in DOMAIN n THEN n.sms ELSE TRUE]

\* customerPreferencesSchema: every key has a default
JoiPreferences(p) ==
  [language |-> IF "language" \in DOMAIN p THEN p.language ELSE "es",
   currency |-> IF "currency" \in DOMAIN p THEN p.currency ELSE "COP",
   notificationPreferences |->
     IF "notificationPreferences" \in DOMAIN p
     THEN JoiNotificationPreferences(p.notificationPreferences)
     ELSE [email |-> TRUE, sms |-> TRUE],
   marketingConsent |-> IF "marketingConsent" \in DOMAIN p THEN p.marketingConsent ELSE FALSE]

JoiPreferencesValid(p) ==
  /\ "language" \in DOMAIN p => p.language \in Languages
  /\ "currency" \in DOMAIN p => p.currency \in Currencies

\* kycDocumentSchema: one element of createCustomerSchema.documents; uploadDate
\* is "server" when the server's clock stamped it (the default), else the
\* literal the client sent
JoiKycDocument(d) ==
  [type |-> d.type,
   filename |-> d.filename,
   uploadDate |-> IF "uploadDate" \in DOMAIN d THEN d.uploadDate ELSE "server",
   verified |-> IF "verified" \in DOMAIN d THEN d.verified ELSE FALSE,
   verifiedBy |-> IF "verifiedBy" \in DOMAIN d THEN d.verifiedBy ELSE NULL]

JoiKycDocumentValid(d) == d.type \in DocTypes /\ Trim(d.filename) # <<>>

\* Joi.string().trim().min(8).max(20)
JoiNationalIdValid(s) == Len(Trim(s)) >= 8 /\ Len(Trim(s)) <= 20

\* (mutant) validation without stripUnknown: every key of the body is kept
KeepUnknown(body, known) == body

\* stripUnknown: true - the keys the schema does not describe are dropped
StripUnknown(body, known) == [k \in DOMAIN body \cap known |-> body[k]]

\* validateRequest(createCustomerSchema): { error, value } of schema.validate
\* with stripUnknown and convert
CreateValidate(body) ==
  LET kept == StripUnknown(body, CreateKnownKeys)
      docs == IF "documents" \in DOMAIN body THEN body.documents ELSE <<>>
  IN [error |-> \/ ~JoiIsEmail(JoiEmailConvert(body.email))
                \/ ~JoiNationalIdValid(body.nationalId)
                \/ ~JoiDobValid(body.dateOfBirth, Today)
                \/ \E i \in DOMAIN docs : ~JoiKycDocumentValid(docs[i])
                \/ "address" \notin DOMAIN body
                \/ ("address" \in DOMAIN body /\ ~JoiAddressValid(body.address))
                \/ ("preferences" \in DOMAIN body /\ ~JoiPreferencesValid(body.preferences)),
      value |-> [k \in DOMAIN kept \cup {"documents", "preferences"} |->
                   CASE k = "email" -> JoiEmailConvert(body.email)
                     [] k = "nationalId" -> Trim(body.nationalId)
                     [] k = "documents" -> [i \in DOMAIN docs |-> JoiKycDocument(docs[i])]
                     [] k = "address" -> JoiAddress(body.address)
                     [] k = "preferences" ->
                          IF "preferences" \in DOMAIN body
                          THEN JoiPreferences(body.preferences)
                          ELSE JoiPreferences(<<>>)
                     [] OTHER -> kept[k]]]

UpdateAllowedKeys == {"firstName", "email", "address", "preferences"}

\* the converted value of one key of updateCustomerSchema
UpdateConvert(k, v) ==
  CASE k = "email" -> JoiEmailConvert(v)
    [] k = "address" -> JoiAddress(v)
    [] k = "preferences" -> JoiPreferences(v)
    [] OTHER -> v
UpdateForbiddenKeys == {"nationalId", "dateOfBirth", "documents", "emailVerified",
                        "phoneVerified", "identityVerified", "complianceStatus", "status"}

\* (mutant) an update schema that drops the protected keys instead of
\* refusing them
UpdateValidateLenient(patch) ==
  LET kept == DOMAIN patch \cap UpdateAllowedKeys
  IN [error |-> \/ ("email" \in kept /\ ~JoiIsEmail(JoiEmailConvert(patch.email)))
                \/ DOMAIN patch = {},
      value |-> [k \in DOMAIN patch |->
                   IF k \in UpdateAllowedKeys THEN UpdateConvert(k, patch[k]) ELSE patch[k]]]

\* validateRequest(updateCustomerSchema): forbidden keys are errors, unknown
\* keys are stripped, and .min(1) counts the keys that are left
UpdateValidate(patch) ==
  LET kept == DOMAIN StripUnknown(patch, UpdateAllowedKeys)
  IN [error |-> \/ DOMAIN patch \cap UpdateForbiddenKeys # {}
                \/ ("email" \in kept /\ ~JoiIsEmail(JoiEmailConvert(patch.email)))
                \/ ("address" \in kept /\ ~JoiAddressValid(patch.address))
                \/ ("preferences" \in kept /\ ~JoiPreferencesValid(patch.preferences))
                \/ kept = {},
      value |-> [k \in kept |-> UpdateConvert(k, patch[k])]]

\* validateRequest(addKycDocumentSchema)
AddDocValidate(body) ==
  [error |-> ~(body.type \in DocTypes /\ Trim(body.filename) # <<>>),
   value |-> [type |-> body.type, filename |-> Trim(body.filename)]]

\* validateParams(customerIdSchema): the model writes a well-formed identifier
\* as a positive number (the position in the store of the record that has it
\* or will have it) and the malformed one as 0
MalformedId == 0
IdValid(id) == id # MalformedId

\* ----------------------------------------------------------- record store
\* new Customer(customerData): the schema's setters and defaults
NewCustomer(value) ==
  [firstName |-> value.firstName,
   email |-> MongooseEmailSet(value.email),
   nationalId |-> Trim(value.nationalId),
   dateOfBirth |-> value.dateOfBirth,
   address |-> value.address,
   preferences |-> value.preferences,
   documents |-> IF "documents" \in DOMAIN value THEN value.documents ELSE <<>>,
   emailVerified |-> IF "emailVerified" \in DOMAIN value THEN value.emailVerified ELSE FALSE,
   phoneVerified |-> IF "phoneVerified" \in DOMAIN value THEN value.phoneVerified ELSE FALSE,
   identityVerified |->
     IF "identityVerified" \in DOMAIN value THEN value.identityVerified ELSE FALSE,
   status |-> IF "status" \in DOMAIN value THEN value.status ELSE "pending_verification",
   complianceStatus |->
     IF "complianceStatus" \in DOMAIN value THEN value.complianceStatus ELSE "pending",
   complianceNotes |-> IF "complianceNotes" \in DOMAIN value THEN value.complianceNotes ELSE NULL,
   complianceCheckedAt |->
     IF "complianceCheckedAt" \in DOMAIN value THEN value.complianceCheckedAt ELSE NULL]

\* the schema validators that run on save()
MongooseValidate(doc) ==
  /\ MongooseEmailMatch(doc.email)
  /\ MongooseDobValid(doc.dateOfBirth, Today)
  /\ Len(doc.nationalId) >= 8 /\ Len(doc.nationalId) <= 20
  /\ doc.status \in CustomerStatuses
  /\ doc.complianceStatus \in ComplianceStatuses
  /\ \A i \in DOMAIN doc.documents : doc.documents[i].type \in DocTypes

\* (mutant) a store without the unique indexes
DuplicateKeysNoIndex(store, self, vals) == {}

\* the unique indexes (email, nationalId): the keys a write of these values,
\* to a record other than `self`, would duplicate
DuplicateKeys(store, self, vals) ==
  {f \in DOMAIN vals \cap {"email", "nationalId"} :
     \E i \in DOMAIN store : i # self /\ store[i][f] = vals[f]}

\* -------------------------------------------------------- error handling
AppError(statusCode, field) == [kind |-> "AppError", statusCode |-> statusCode, field |-> field]
DuplicateKeyError(field) == [kind |-> "MongoServerError", code |-> 11000, field |-> field]
ValidationError == [kind |-> "ValidationError"]

\* handleDuplicateFieldsDB
handleDuplicateFieldsDB(err) == AppError(409, err.field)

\* globalErrorHandler: the status and the field named in the message
globalErrorHandler(err, nodeEnv) ==
  IF err.kind = "AppError"
  THEN [status |-> err.statusCode, field |-> err.field]
  ELSE IF nodeEnv = "development"
  THEN \* sendErrorDev: err.statusCode || 500, the raw error's message
       [status |-> 500, field |-> NULL]
  ELSE IF err.kind = "MongoServerError" /\ err.code = 11000
  THEN [status |-> handleDuplicateFieldsDB(err).statusCode,
        field |-> handleDuplicateFieldsDB(err).field]
  ELSE \* { ...err } drops the prototype's name, so no handler matches and
       \* sendErrorProd answers a non-operational error
       [status |-> 500, field |-> NULL]

\* ------------------------------------------------------------------ state
VARIABLES
  db,     \* the customers collection, in creation order; a record's id is its position
  req,    \* the requests whose handler is suspended at an await, by request slot
  tasks,  \* the compliance triggers: scheduled by setImmediate, or sent and unanswered
  last,   \* the HTTP response sent last (id: the record a success is about)
  served, \* the number of requests received so far
  env     \* process.env.NODE_ENV

vars == <<db, req, tasks, last, served, env>>

Slots == 1..MaxReq
Idle == [pc |-> "idle"]
Ids == 0..MaxCustomers

Response(op, status, field, id, data) ==
  [op |-> op, status |-> status, field |-> field, id |-> id, data |-> data]

\* a request arrives: the rate limiter counts it and a free slot takes it
Receive(r) ==
  /\ req[r].pc = "idle"
  /\ \A q \in Slots : q < r => req[q].pc # "idle"
  /\ served < MaxRequests
  /\ served' = served + 1

\* sendSuccess / the error middleware: the response goes out and the handler ends
Respond(r, op, status, field, id, data) ==
  /\ last' = Response(op, status, field, id, data)
  /\ req' = [req EXCEPT ![r] = Idle]

\* next(err): through globalErrorHandler
Fail(r, op, err, id) ==
  LET res == globalErrorHandler(err, env)
  IN Respond(r, op, res.status, res.field, 0, Nothing)

InFlight(op) == Cardinality({r \in Slots : req[r].pc = op})

Init ==
  /\ db = <<>>
  /\ req = [r \in Slots |-> Idle]
  /\ tasks = <<>>
  /\ last = Response("none", 0, NULL, 0, Nothing)
  /\ served = 0
  /\ env \in {"development", "production"}

\* --------------------------------------------------- the compliance trigger
\* (mutant) a trigger that sends its request at once instead of deferring it
ComplianceTaskEager(id, customer, origin) ==
  [customerId |-> id,
   origin |-> origin,
   stage |-> "sent",
   documents |-> [i \in DOMAIN customer.documents |->
                    [type |-> customer.documents[i].type,
                     filename |-> customer.documents[i].filename]]]

\* triggerComplianceCheckAsync, up to setImmediate: the request is built from
\* the in-memory customer and its sending is deferred
ComplianceTask(id, customer, origin) ==
  [customerId |-> id,
   origin |-> origin,
   stage |-> "scheduled",
   documents |-> [i \in DOMAIN customer.documents |->
                    [type |-> customer.documents[i].type,
                     filename |-> customer.documents[i].filename]]]

\* --------------------------------------------------------------- register
\* (mutant) a lookup by email alone
findOneByEmail(store, value) == {i \in DOMAIN store : store[i].email = value.email}

\* Customer.findOne({ $or: [{ email }, { nationalId }] }): the records the
\* query matches; the store returns one of them
findOne(store, value) ==
  {i \in DOMAIN store : \/ store[i].email = value.email
                        \/ store[i].nationalId = value.nationalId}

\* createCustomer up to `await Customer.findOne(...)` and the branch on its result
RegisterCheck(r, body) ==
  /\ Receive(r)
  /\ UNCHANGED <<db, tasks, env>>
  /\ LET v == CreateValidate(body)
         matches == findOne(db, v.value)
     IN IF v.error
        THEN Respond(r, "register", 400, NULL, 0, Nothing)
        ELSE IF matches # {}
        THEN \E i \in matches :
               IF db[i].email = v.value.email
               THEN Fail(r, "register", AppError(409, "email"), 0)
               ELSE Fail(r, "register", AppError(409, "nationalId"), 0)
        ELSE /\ Len(db) + InFlight("register") < MaxCustomers
             /\ req' = [req EXCEPT ![r] = [pc |-> "register", value |-> v.value]]
             /\ UNCHANGED last

\* createCustomer from `await newCustomer.save()` to the response
RegisterSave(r) ==
  /\ req[r].pc = "register"
  /\ UNCHANGED <<served, env>>
  /\ LET newCustomer == NewCustomer(req[r].value)
         dup == DuplicateKeys(db, 0, newCustomer)
     IN IF ~MongooseValidate(newCustomer)
        THEN Fail(r, "register", ValidationError, 0) /\ UNCHANGED <<db, tasks>>
        ELSE IF dup # {}
        THEN /\ \E f \in dup : Fail(r, "register", DuplicateKeyError(f), 0)
             /\ UNCHANGED <<db, tasks>>
        ELSE /\ Len(tasks) < MaxTasks
             /\ db' = Append(db, newCustomer)
             /\ tasks' = Append(tasks, ComplianceTask(Len(db) + 1, newCustomer, "register"))
             /\ Respond(r, "register", 201, NULL, Len(db) + 1, newCustomer)

\* ----------------------------------------------------------------- update
\* the update validators (runValidators: true) on the fields of the patch
MongooseUpdateValidate(value) ==
  "email" \in DOMAIN value => MongooseEmailMatch(MongooseEmailSet(value.email))

ApplyPatch(customer, value) ==
  [k \in DOMAIN customer |->
     IF k \in DOMAIN value
     THEN IF k = "email" THEN MongooseEmailSet(value[k]) ELSE value[k]
     ELSE customer[k]]

\* (mutant) a write that lands before the unique index refuses it
FindByIdAndUpdateDirty(r, id, value) ==
  /\ UNCHANGED <<tasks, env>>
  /\ IF ~MongooseUpdateValidate(value)
     THEN Fail(r, "update", ValidationError, id) /\ UNCHANGED db
     ELSE IF id \notin DOMAIN db
     THEN Fail(r, "update", AppError(404, NULL), id) /\ UNCHANGED db
     ELSE IF DuplicateKeys(db, id, ApplyPatch(db[id], value)) # {}
     THEN /\ \E f \in DuplicateKeys(db, id, ApplyPatch(db[id], value)) :
               Fail(r, "update", DuplicateKeyError(f), id)
          /\ db' = [db EXCEPT ![id] = ApplyPatch(db[id], value)]
     ELSE /\ db' = [db EXCEPT ![id] = ApplyPatch(db[id], value)]
          /\ Respond(r, "update", 200, NULL, id, ApplyPatch(db[id], value))

\* `await Customer.findByIdAndUpdate(id, updateData, { new, runValidators })`
\* and the rest of updateCustomer
FindByIdAndUpdate(r, id, value) ==
  /\ UNCHANGED <<tasks, env>>
  /\ IF ~MongooseUpdateValidate(value)
     THEN Fail(r, "update", ValidationError, id) /\ UNCHANGED db
     ELSE IF id \notin DOMAIN db
     THEN Fail(r, "update", AppError(404, NULL), id) /\ UNCHANGED db
     ELSE IF DuplicateKeys(db, id, ApplyPatch(db[id], value)) # {}
     THEN /\ \E f \in DuplicateKeys(db, id, ApplyPatch(db[id], value)) :
               Fail(r, "update", DuplicateKeyError(f), id)
          /\ UNCHANGED db
     ELSE /\ db' = [db EXCEPT ![id] = ApplyPatch(db[id], value)]
          /\ Respond(r, "update", 200, NULL, id, ApplyPatch(db[id], value))

\* updateCustomer from the validation middleware to its first await: the
\* email lookup when the patch carries an email, else the write itself
UpdateCheck(r, id, patch) ==
  /\ Receive(r)
  /\ LET v == UpdateValidate(patch)
     IN IF ~IdValid(id) \/ v.error
        THEN Respond(r, "update", 400, NULL, 0, Nothing) /\ UNCHANGED <<db, tasks, env>>
        ELSE IF "email" \in DOMAIN v.value
        THEN /\ UNCHANGED <<db, tasks, env>>
             /\ IF \E i \in DOMAIN db : i # id /\ db[i].email = v.value.email
                THEN Fail(r, "update", AppError(409, "email"), id)
                ELSE /\ req' = [req EXCEPT ![r] = [pc |-> "update", id |-> id, value |-> v.value]]
                     /\ UNCHANGED last
        ELSE FindByIdAndUpdate(r, id, v.value)

\* updateCustomer after the email lookup found no other owner
UpdateWrite(r) ==
  /\ req[r].pc = "update"
  /\ UNCHANGED served
  /\ FindByIdAndUpdate(r, req[r].id, req[r].value)

\* ------------------------------------------------------------ addDocument
\* addKycDocument up to `await Customer.findById(id)`
AddDocFind(r, id, body) ==
  /\ Receive(r)
  /\ UNCHANGED <<db, tasks, env>>
  /\ LET v == AddDocValidate(body)
     IN IF ~IdValid(id) \/ v.error
        THEN Respond(r, "addDocument", 400, NULL, 0, Nothing)
        ELSE IF id \notin DOMAIN db
        THEN Fail(r, "addDocument", AppError(404, NULL), id)
        ELSE /\ Len(db[id].documents) < MaxDocs
             /\ req' = [req EXCEPT ![r] = [pc |-> "addDocument", id |-> id,
                                           document |-> v.value, customer |-> db[id]]]
             /\ UNCHANGED last

\* (mutant) a push that marks the new document verified
PushDocumentVerified(customer, documentData) ==
  [customer EXCEPT !.documents =
     Append(@, [type |-> documentData.type,
                filename |-> documentData.filename,
                uploadDate |-> "server",
                verified |-> TRUE,
                verifiedBy |-> NULL])]

\* customer.documents.push({...})
PushDocument(customer, documentData) ==
  [customer EXCEPT !.documents =
     Append(@, [type |-> documentData.type,
                filename |-> documentData.filename,
                uploadDate |-> "server",
                verified |-> FALSE,
                verifiedBy |-> NULL])]

\* (mutant) a save that writes the whole in-memory document back
SaveDocumentsWhole(store, id, pushed) == [store EXCEPT ![id] = pushed]

\* (mutant) a save that writes the whole in-memory array back
SaveDocumentsOverwrite(store, id, pushed) ==
  [store EXCEPT ![id].documents = pushed.documents]

\* customer.save() of a loaded document whose documents array was pushed to:
\* the store receives a $push of the new element
SaveDocuments(store, id, pushed) ==
  [store EXCEPT ![id].documents = Append(@, pushed.documents[Len(pushed.documents)])]

\* addKycDocument from the push to the response
AddDocSave(r) ==
  /\ req[r].pc = "addDocument"
  /\ UNCHANGED <<served, env>>
  /\ LET id == req[r].id
         customer == PushDocument(req[r].customer, req[r].document)
     IN IF ~MongooseValidate(customer)
        THEN Fail(r, "addDocument", ValidationError, id) /\ UNCHANGED <<db, tasks>>
        ELSE /\ db' = SaveDocuments(db, id, customer)
             /\ IF req[r].document.type \in IdentityDocTypes
                THEN /\ Len(tasks) < MaxTasks
                     /\ tasks' = Append(tasks, ComplianceTask(id, customer, "addDocument"))
                ELSE UNCHANGED tasks
             /\ Respond(r, "addDocument", 200, NULL, id, customer)

\* ------------------------------------------------------------- softDelete
\* (mutant) a delete that reactivates a record it finds inactive
SoftDeleteToggles(r, id) ==
  /\ Receive(r)
  /\ UNCHANGED <<tasks, env>>
  /\ IF ~IdValid(id)
     THEN Respond(r, "softDelete", 400, NULL, 0, Nothing) /\ UNCHANGED db
     ELSE IF id \notin DOMAIN db
     THEN Fail(r, "softDelete", AppError(404, NULL), id) /\ UNCHANGED db
     ELSE /\ db' = [db EXCEPT ![id].status = IF @ = "inactive" THEN "active" ELSE "inactive"]
          /\ Respond(r, "softDelete", 200, NULL, id, Nothing)

\* (mutant) a delete that no longer finds a record it has deactivated
SoftDeleteOnce(r, id) ==
  /\ Receive(r)
  /\ UNCHANGED <<tasks, env>>
  /\ IF ~IdValid(id)
     THEN Respond(r, "softDelete", 400, NULL, 0, Nothing) /\ UNCHANGED db
     ELSE IF id \notin DOMAIN db \/ db[id].status = "inactive"
     THEN Fail(r, "softDelete", AppError(404, NULL), id) /\ UNCHANGED db
     ELSE /\ db' = [db EXCEPT ![id].status = "inactive"]
          /\ Respond(r, "softDelete", 200, NULL, id, Nothing)

\* deleteCustomer: one findByIdAndUpdate(id, { status: 'inactive' })
SoftDelete(r, id) ==
  /\ Receive(r)
  /\ UNCHANGED <<tasks, env>>
  /\ IF ~IdValid(id)
     THEN Respond(r, "softDelete", 400, NULL, 0, Nothing) /\ UNCHANGED db
     ELSE IF id \notin DOMAIN db
     THEN Fail(r, "softDelete", AppError(404, NULL), id) /\ UNCHANGED db
     ELSE /\ db' = [db EXCEPT ![id].status = "inactive"]
          /\ Respond(r, "softDelete", 200, NULL, id, Nothing)

\* ------------------------------------------------------------------ reads
\* (mutant) a lookup that passes over deactivated records
findActiveById(store, id) == {i \in DOMAIN store : i = id /\ store[i].status # "inactive"}

\* Customer.findById(id): the record with that id, if there is one
findById(store, id) == {i \in DOMAIN store : i = id}

\* getCustomerById
GetById(r, id) ==
  /\ Receive(r)
  /\ UNCHANGED <<db, tasks, env>>
  /\ IF ~IdValid(id)
     THEN Respond(r, "getById", 400, NULL, 0, Nothing)
     ELSE IF findById(db, id) = {}
     THEN Fail(r, "getById", AppError(404, NULL), id)
     ELSE Respond(r, "getById", 200, NULL, id, db[id])

\* getCustomerByNationalId: the path parameter is used as it came
GetByNationalId(r, nationalId) ==
  /\ Receive(r)
  /\ UNCHANGED <<db, tasks, env>>
  /\ LET found == {i \in DOMAIN db : db[i].nationalId = nationalId}
     IN IF nationalId = <<>>
        THEN Fail(r, "getByNationalId", AppError(400, NULL), 0)
        ELSE IF found = {}
        THEN Fail(r, "getByNationalId", AppError(404, NULL), 0)
        ELSE \E i \in found : Respond(r, "getByNationalId", 200, NULL, i, db[i])

\* the answers of the accounts collaborator (MS2) to one lookup
AccountLists == {<<>>, <<"acc1">>, <<"acc1", "acc2">>}
AccountsOutcomes ==
  {[kind |-> "success", data |-> a] : a \in AccountLists}
    \cup {[kind |-> k] : k \in {"successNoData", "noSuccessFlag", "refused", "timeout",
                                "status404", "status500", "status401", "notAxios"}}

\* (mutant) a gateway that answers an empty list whenever the lookup fails
getCustomerAccountsQuiet(outcome) ==
  IF outcome.kind = "success"
  THEN [raised |-> FALSE, result |-> outcome.data]
  ELSE [raised |-> FALSE, result |-> <<>>]

\* ExternalServicesClient.getCustomerAccounts: what the call gives the
\* handler for each answer
getCustomerAccounts(outcome) ==
  CASE outcome.kind = "success" -> [raised |-> FALSE, result |-> outcome.data]
    [] outcome.kind = "successNoData" -> [raised |-> FALSE, result |-> <<>>]
    [] outcome.kind = "noSuccessFlag" -> [raised |-> FALSE, result |-> <<>>]
    [] outcome.kind = "refused" -> [raised |-> TRUE, result |-> <<>>]
    [] outcome.kind = "status404" -> [raised |-> FALSE, result |-> <<>>]
    [] outcome.kind = "status500" -> [raised |-> TRUE, result |-> <<>>]
    [] OTHER -> [raised |-> TRUE, result |-> <<>>]

\* getCustomerAccounts up to the call of the accounts collaborator
GetAccountsFind(r, id) ==
  /\ Receive(r)
  /\ UNCHANGED <<db, tasks, env>>
  /\ IF ~IdValid(id)
     THEN Respond(r, "getAccounts", 400, NULL, 0, Nothing)
     ELSE IF findById(db, id) = {}
     THEN Fail(r, "getAccounts", AppError(404, NULL), id)
     ELSE /\ req' = [req EXCEPT ![r] = [pc |-> "getAccounts", id |-> id, customer |-> db[id]]]
          /\ UNCHANGED last

\* getCustomerAccounts from the collaborator's answer to the response
GetAccountsReturn(r, outcome) ==
  /\ req[r].pc = "getAccounts"
  /\ UNCHANGED <<db, tasks, served, env>>
  /\ LET accounts == getCustomerAccounts(outcome)
     IN IF accounts.raised
        THEN Fail(r, "getAccounts", AppError(503, NULL), req[r].id)
        ELSE Respond(r, "getAccounts", 200, NULL, req[r].id,
                     [customer |-> [id |-> req[r].id,
                                    firstName |-> req[r].customer.firstName,
                                    email |-> req[r].customer.email],
                      accounts |-> accounts.result])

\* ----------------------------------------------------------------- search
DefaultPage == 1
DefaultLimit == 10
MinLimit == 1
MaxLimit == 100

\* searchCustomerSchema under validateQuery: page and limit get their
\* defaults; a value out of range is an error
SearchValidate(query) ==
  LET given(k) == k \in DOMAIN query
      pageOk == given("page") => query.page >= 1
      limitOk == given("limit") => (query.limit >= MinLimit /\ query.limit <= MaxLimit)
      statusOk == given("status") => query.status \in CustomerStatuses
  IN [error |-> ~(pageOk /\ limitOk /\ statusOk),
      value |-> [k \in {"page", "limit"} \cup (DOMAIN query \cap {"status"}) |->
                   CASE k = "page" -> IF given("page") THEN query.page ELSE DefaultPage
                     [] k = "limit" -> IF given("limit") THEN query.limit ELSE DefaultLimit
                     [] OTHER -> query[k]]]

\* the records the filter selects
Matching(store, query) ==
  {i \in DOMAIN store : "status" \in DOMAIN query => store[i].status = query.status}

countDocuments(store, query) == Cardinality(Matching(store, query))

\* .sort({ createdAt: -1 }): ids are given in creation order
RECURSIVE SortCreatedDesc(_)
SortCreatedDesc(ids) ==
  IF ids = {} THEN <<>>
  ELSE LET newest == CHOOSE i \in ids : \A j \in ids : j <= i
       IN <<newest>> \o SortCreatedDesc(ids \ {newest})

\* (mutant) a page offset that starts one page too far
skipPagesAhead(page, limit) == page * limit

\* const skip = (page - 1) * limit
skipPages(page, limit) == (page - 1) * limit

\* .skip(skip).limit(limit)
SkipLimit(seq, skip, limit) ==
  IF skip >= Len(seq) THEN <<>>
  ELSE SubSeq(seq, skip + 1, IF skip + limit <= Len(seq) THEN skip + limit ELSE Len(seq))

\* .select('-documents -__v') and toObject()
SafeCustomer(store, i) ==
  [k \in (DOMAIN store[i] \ {"documents"}) \cup {"id"} |->
     IF k = "id" THEN i ELSE store[i][k]]

\* Customer.find(filter).select(...).sort(...).skip(...).limit(...)
find(store, query) ==
  LET page == SkipLimit(SortCreatedDesc(Matching(store, query)),
                        skipPages(query.page, query.limit), query.limit)
  IN [k \in 1..Len(page) |-> SafeCustomer(store, page[k])]

\* Math.ceil(a / b)
Ceil(a, b) == IF a % b = 0 THEN a \div b ELSE a \div b + 1

sendPaginatedResponse(data, totalCount, page, limit) ==
  LET totalPages == Ceil(totalCount, limit)
  IN [items |-> data,
      pagination |-> [currentPage |-> page,
                      totalPages |-> totalPages,
                      totalItems |-> totalCount,
                      itemsPerPage |-> limit,
                      hasNextPage |-> page < totalPages,
                      hasPreviousPage |-> page > 1]]

\* searchCustomers up to the count of the matching records
SearchCount(r, query) ==
  /\ Receive(r)
  /\ UNCHANGED <<db, tasks, env>>
  /\ LET v == SearchValidate(query)
     IN IF v.error
        THEN Respond(r, "search", 400, NULL, 0, Nothing)
        ELSE /\ req' = [req EXCEPT ![r] = [pc |-> "search", query |-> v.value,
                                           totalCount |-> countDocuments(db, v.value)]]
             /\ UNCHANGED last

\* searchCustomers from the read of the page to the response
SearchFind(r) ==
  /\ req[r].pc = "search"
  /\ UNCHANGED <<db, tasks, served, env>>
  /\ Respond(r, "search", 200, NULL, 0,
             sendPaginatedResponse(find(db, req[r].query), req[r].totalCount,
                                   req[r].query.page, req[r].query.limit))

\* ------------------------------------------------------ request pipeline
\* the middleware a POST or PUT to /api/customers passes, in the order in
\* which startServer and the router register it
Pipeline ==
  <<"requestLogger", "corsConfig", "helmetConfig", "additionalSecurityHeaders",
    "validateContentType", "sanitizeInput", "securityLogger", "generalRateLimit",
    "express.json", "express.urlencoded", "validateParams", "validateRequest">>

\* the middleware that only passes the request on
PassingMiddleware ==
  {"requestLogger", "corsConfig", "helmetConfig", "additionalSecurityHeaders",
   "securityLogger", "generalRateLimit", "express.urlencoded", "validateParams"}

\* a string value is a sequence of pieces: letters, blanks, and the
\* fragments the sanitizer removes
DangerousFragments == {"<script>x</script>", "javascript:", "vbscript:", "onload="}

\* sanitizeValue on a string: the four replace calls and trim
sanitizeValue(value) ==
  Trim(SelectSeq(value, LAMBDA piece : piece \notin DangerousFragments))

\* sanitizeValue on an object: every own property
sanitizeObject(body) == [k \in DOMAIN body |-> sanitizeValue(body[k])]

\* a request enters the application
PipelineReceive(r, method, contentType, payload) ==
  /\ Receive(r)
  /\ req' = [req EXCEPT ![r] = [pc |-> "pipeline", at |-> 1, method |-> method,
                                contentType |-> contentType, payload |-> payload,
                                parsed |-> FALSE, body |-> <<>>, sanitized |-> FALSE]]
  /\ UNCHANGED <<db, tasks, last, env>>

AtMiddleware(r) == IF req[r].pc = "pipeline" THEN Pipeline[req[r].at] ELSE "none"

\* a middleware that calls next() and leaves the body alone
PassMiddleware(r) ==
  /\ AtMiddleware(r) \in PassingMiddleware
  /\ req' = [req EXCEPT ![r].at = @ + 1]
  /\ UNCHANGED <<db, tasks, last, served, env>>

validateContentType(r) ==
  /\ AtMiddleware(r) = "validateContentType"
  /\ UNCHANGED <<db, tasks, served, env>>
  /\ IF req[r].method \in {"POST", "PUT", "PATCH"} /\ req[r].contentType # "application/json"
     THEN Respond(r, "pipeline", 400, NULL, 0, Nothing)
     ELSE req' = [req EXCEPT ![r].at = @ + 1] /\ UNCHANGED last

\* sanitizeInput: `if (req.body)` - a body that is not parsed yet is undefined
sanitizeInput(r) ==
  /\ AtMiddleware(r) = "sanitizeInput"
  /\ req' = [req EXCEPT ![r] =
               IF req[r].parsed
               THEN [@ EXCEPT !.body = sanitizeObject(@), !.sanitized = TRUE, !.at = @ + 1]
               ELSE [@ EXCEPT !.at = @ + 1]]
  /\ UNCHANGED <<db, tasks, last, served, env>>

\* express.json(): req.body becomes the parsed payload
ExpressJson(r) ==
  /\ AtMiddleware(r) = "express.json"
  /\ req' = [req EXCEPT ![r] = [@ EXCEPT !.body = req[r].payload, !.parsed = TRUE,
                                        !.at = @ + 1]]
  /\ UNCHANGED <<db, tasks, last, served, env>>

\* validateRequest reads req.body; the request goes on to its handler with
\* the body the validator read
validateRequest(r) ==
  /\ AtMiddleware(r) = "validateRequest"
  /\ req' = [req EXCEPT ![r] = [pc |-> "handler", method |-> req[r].method,
                                payload |-> req[r].payload, read |-> req[r].body,
                                sanitized |-> req[r].sanitized]]
  /\ UNCHANGED <<db, tasks, last, served, env>>

\* --------------------------------------------------- compliance callbacks
\* the answers of the compliance collaborator (MS4) to one request
ComplianceResultStatuses == {"approved", "rejected", "flagged"}
ComplianceOutcomes ==
  {[kind |-> "success", status |-> s] : s \in ComplianceResultStatuses}
    \cup {[kind |-> k] : k \in {"timeout", "refused", "status400", "status404",
                                "status500", "noSuccessFlag"}}

\* ExternalServicesClient.triggerComplianceCheck: what the call gives the
\* trigger for each answer
triggerComplianceCheck(outcome) ==
  CASE outcome.kind = "success" ->
         [raised |-> FALSE,
          result |-> [status |-> outcome.status, notes |-> "notes", checkedAt |-> "checked"]]
    [] outcome.kind = "noSuccessFlag" -> [raised |-> FALSE, result |-> Nothing]
    [] outcome.kind = "refused" -> [raised |-> FALSE, result |-> Nothing]
    [] outcome.kind = "status400" -> [raised |-> TRUE, result |-> Nothing]
    [] outcome.kind = "status500" -> [raised |-> FALSE, result |-> Nothing]
    [] OTHER -> [raised |-> FALSE, result |-> Nothing]

RemoveAt(s, k) == SubSeq(s, 1, k - 1) \o SubSeq(s, k + 1, Len(s))

\* the update document of the callback's findByIdAndUpdate
ComplianceUpdate(customer, complianceResult) ==
  [customer EXCEPT !.complianceStatus = complianceResult.status,
                   !.complianceNotes = complianceResult.notes,
                   !.complianceCheckedAt = complianceResult.checkedAt]

\* the setImmediate callback starts: the request goes out (callbacks run in
\* the order they were scheduled)
ComplianceSend(k) ==
  /\ k \in DOMAIN tasks
  /\ tasks[k].stage = "scheduled"
  /\ \A j \in 1..(k - 1) : tasks[j].stage # "scheduled"
  /\ tasks' = [tasks EXCEPT ![k].stage = "sent"]
  /\ UNCHANGED <<db, req, last, served, env>>

\* (mutant) a callback that also marks the identity verified when the check
\* approves the customer
ComplianceReturnVerifies(k, outcome) ==
  /\ k \in DOMAIN tasks
  /\ tasks[k].stage = "sent"
  /\ LET complianceResult == triggerComplianceCheck(outcome)
     IN IF ~complianceResult.raised /\ complianceResult.result # Nothing
        THEN db' = [db EXCEPT ![tasks[k].customerId] =
                      [ComplianceUpdate(@, complianceResult.result)
                         EXCEPT !.identityVerified = (complianceResult.result.status = "approved")]]
        ELSE UNCHANGED db
  /\ tasks' = RemoveAt(tasks, k)
  /\ UNCHANGED <<req, last, served, env>>

\* (mutant) a callback that withdraws the newest registration when its
\* check did not succeed
ComplianceReturnRollback(k, outcome) ==
  /\ k \in DOMAIN tasks
  /\ tasks[k].stage = "sent"
  /\ LET complianceResult == triggerComplianceCheck(outcome)
     IN IF ~complianceResult.raised /\ complianceResult.result # Nothing
        THEN db' = [db EXCEPT ![tasks[k].customerId] =
                      ComplianceUpdate(@, complianceResult.result)]
        ELSE IF tasks[k].customerId = Len(db) /\ tasks[k].origin = "register"
        THEN db' = SubSeq(db, 1, Len(db) - 1)
        ELSE UNCHANGED db
  /\ tasks' = RemoveAt(tasks, k)
  /\ UNCHANGED <<req, last, served, env>>

\* (mutant) a callback that puts the trigger back in the queue when its
\* check did not succeed
ComplianceReturnRetries(k, outcome) ==
  /\ k \in DOMAIN tasks
  /\ tasks[k].stage = "sent"
  /\ LET complianceResult == triggerComplianceCheck(outcome)
     IN IF ~complianceResult.raised /\ complianceResult.result # Nothing
        THEN /\ db' = [db EXCEPT ![tasks[k].customerId] =
                         ComplianceUpdate(@, complianceResult.result)]
             /\ tasks' = RemoveAt(tasks, k)
        ELSE /\ UNCHANGED db
             /\ tasks' = [tasks EXCEPT ![k].stage = "scheduled"]
  /\ UNCHANGED <<req, last, served, env>>

\* the collaborator's answer arrives and the callback runs to its end
ComplianceReturn(k, outcome) ==
  /\ k \in DOMAIN tasks
  /\ tasks[k].stage = "sent"
  /\ LET complianceResult == triggerComplianceCheck(outcome)
     IN IF ~complianceResult.raised /\ complianceResult.result # Nothing
        THEN db' = [db EXCEPT ![tasks[k].customerId] =
                      ComplianceUpdate(@, complianceResult.result)]
        ELSE UNCHANGED db
  /\ tasks' = RemoveAt(tasks, k)
  /\ UNCHANGED <<req, last, served, env>>

\* ------------------------------------------------------- request inputs
FileA == <<"a">>
FileBlank == <<" ">>
FileClient == <<"c">>

HomeAddress == [city |-> "Cali"]

CreateBody(e, n, d) ==
  [firstName |-> "Ana", email |-> e, nationalId |-> n, dateOfBirth |-> d,
   address |-> HomeAddress]

\* keys the create schema does not know, and a documents array that claims
\* to be verified already
PrivilegedKeys ==
  [firstName |-> "Eve", status |-> "active", complianceStatus |-> "approved",
   complianceNotes |-> "client", complianceCheckedAt |-> "client",
   emailVerified |-> TRUE, phoneVerified |-> TRUE, identityVerified |-> TRUE]
ClientDocuments ==
  [documents |-> <<[type |-> "passport", filename |-> FileA, verified |-> TRUE,
                    verifiedBy |-> "client", uploadDate |-> "client"]>>]

RegisterBodies ==
  {CreateBody(e, n, DobAdult) : e \in RawEmails \ {EmailPlus}, n \in RawNatIds}
    \cup {CreateBody(EmailPlus, NatId2, DobAdult)}
    \cup {CreateBody(EmailB, NatId2, d) : d \in RawDobs}
    \cup {PrivilegedKeys @@ CreateBody(EmailA, NatId1, DobAdult),
          PrivilegedKeys @@ CreateBody(EmailACaps, NatId2, DobAdult),
          CreateBody(EmailA, NatId1, DobAdult) @@ ClientDocuments}

\* update patches: each allowed key alone and together, each forbidden key
\* alone and beside an allowed one, an unknown key, and the empty patch
ForbiddenValues ==
  [nationalId |-> NatId1, dateOfBirth |-> DobAdult, documents |-> <<>>,
   emailVerified |-> FALSE, phoneVerified |-> FALSE, identityVerified |-> FALSE,
   complianceStatus |-> "pending", status |-> "pending_verification"]
Restrict(f, keys) == [k \in keys |-> f[k]]
EmptyPatch == Restrict(ForbiddenValues, {})

UpdatePatches ==
  {[firstName |-> n] : n \in FirstNames}
    \cup {[email |-> e] : e \in RawEmails}
    \cup {[email |-> EmailB, firstName |-> "Bea"]}
    \cup {Restrict(ForbiddenValues, {k}) : k \in UpdateForbiddenKeys}
    \cup {Restrict(ForbiddenValues, {k}) @@ [firstName |-> "Bea"] : k \in UpdateForbiddenKeys}
    \cup {[role |-> "admin"], EmptyPatch}

AddDocBodies ==
  {[type |-> t, filename |-> FileA] : t \in {"passport", "other", "selfie"}}
    \cup {[type |-> "passport", filename |-> FileBlank],
          [type |-> "other", filename |-> FileClient, verified |-> TRUE, uploadDate |-> "client"]}

\* ------------------------------------------------------------- behaviours
Next ==
  \/ \E r \in Slots, body \in RegisterBodies : RegisterCheck(r, body)
  \/ \E r \in Slots : RegisterSave(r)
  \/ \E r \in Slots, id \in Ids, patch \in UpdatePatches : UpdateCheck(r, id, patch)
  \/ \E r \in Slots : UpdateWrite(r)
  \/ \E r \in Slots, id \in Ids, body \in AddDocBodies : AddDocFind(r, id, body)
  \/ \E r \in Slots : AddDocSave(r)
  \/ \E r \in Slots, id \in Ids : SoftDelete(r, id)
  \/ \E k \in 1..MaxTasks : ComplianceSend(k)
  \/ \E k \in 1..MaxTasks, outcome \in ComplianceOutcomes : ComplianceReturn(k, outcome)

Spec == Init /\ [][Next]_vars

\* the behaviours of the reads beside the writes that decide what they see
ReadBodies == {CreateBody(EmailA, NatId1, DobAdult), CreateBody(EmailB, NatId2, DobAdult),
               CreateBody(EmailACaps, NatId2, DobAdult), CreateBody(EmailB, NatId1, DobAdult)}

ReadNext ==
  \/ \E r \in Slots, body \in ReadBodies : RegisterCheck(r, body)
  \/ \E r \in Slots : RegisterSave(r)
  \/ \E r \in Slots, id \in Ids : SoftDelete(r, id)
  \/ \E r \in Slots, id \in Ids : GetById(r, id)
  \/ \E r \in Slots, nationalId \in RawNatIds : GetByNationalId(r, nationalId)
  \/ \E r \in Slots, id \in Ids : GetAccountsFind(r, id)
  \/ \E r \in Slots, outcome \in AccountsOutcomes : GetAccountsReturn(r, outcome)
  \/ \E k \in 1..MaxTasks : ComplianceSend(k)
  \/ \E k \in 1..MaxTasks, outcome \in ComplianceOutcomes : ComplianceReturn(k, outcome)

ReadSpec == Init /\ [][ReadNext]_vars

\* the behaviours of search over a store that already holds records
DigitChar(n) == <<"0", "1", "2", "3", "4", "5", "6", "7", "8", "9">>[n + 1]
StoredEmail(i) == <<"u", DigitChar(i \div 10), DigitChar(i % 10), "@", "x", ".", "c", "o">>
StoredNatId(i) ==
  <<"9", "0", "0", "0", "0", "0", DigitChar(i \div 10), DigitChar(i % 10)>>

\* the store after n registrations, every third customer deactivated since
StoredCustomers(n) ==
  [i \in 1..n |->
     [NewCustomer(CreateValidate(CreateBody(StoredEmail(i), StoredNatId(i), DobAdult)).value)
        EXCEPT !.status = IF i % 3 = 0 THEN "inactive" ELSE @]]

\* queries that carry any of page, limit and status
SearchQueries ==
  {Restrict(query, keys) :
     query \in [page : {0, 1, 2}, limit : {0, 1, 10, 100, 101}, status : {"inactive"}],
     keys \in SUBSET {"page", "limit", "status"}}

SearchInit ==
  /\ db \in {StoredCustomers(n) : n \in 0..MaxStored}
  /\ req = [r \in Slots |-> Idle]
  /\ tasks = <<>>
  /\ last = Response("none", 0, NULL, 0, Nothing)
  /\ served = 0
  /\ env \in {"development", "production"}

SearchNext ==
  \/ \E r \in Slots, query \in SearchQueries : SearchCount(r, query)
  \/ \E r \in Slots : SearchFind(r)
  \/ \E r \in Slots, id \in Ids : SoftDelete(r, id)

SearchSpec == SearchInit /\ [][SearchNext]_vars

\* the behaviours of update on a customer who registered with an address and
\* preferences of their own
ProfileAddresses == {HomeAddress, [city |-> "Lima", country |-> "Peru"]}
ProfilePreferences ==
  {[language |-> "en", currency |-> "USD", marketingConsent |-> TRUE,
    notificationPreferences |-> [sms |-> FALSE]]}

ProfileBodies ==
  {[CreateBody(EmailA, NatId1, DobAdult) EXCEPT !.address = a] : a \in ProfileAddresses}
    \cup {[CreateBody(EmailA, NatId1, DobAdult) EXCEPT !.address = a] @@ [preferences |-> p] :
            a \in ProfileAddresses, p \in ProfilePreferences}

ProfilePatches ==
  {[firstName |-> "Bea"],
   [email |-> EmailB],
   [preferences |-> [language |-> "en"]],
   [preferences |-> [marketingConsent |-> TRUE]],
   [preferences |-> [notificationPreferences |-> [email |-> FALSE]]],
   [preferences |-> [currency |-> "GBP"]],
   [firstName |-> "Bea", preferences |-> [currency |-> "EUR"]],
   [address |-> [city |-> "Lima"]],
   [address |-> [city |-> "Lima", country |-> "Peru"]],
   [address |-> [country |-> "Peru"]]}

ProfileInit ==
  /\ db \in {<<NewCustomer(CreateValidate(body).value)>> : body \in ProfileBodies}
  /\ req = [r \in Slots |-> Idle]
  /\ tasks = <<>>
  /\ last = Response("none", 0, NULL, 0, Nothing)
  /\ served = 0
  /\ env \in {"development", "production"}

ProfileNext ==
  \/ \E r \in Slots, id \in Ids, patch \in ProfilePatches : UpdateCheck(r, id, patch)
  \/ \E r \in Slots : UpdateWrite(r)
  \/ \E r \in Slots, id \in Ids : GetById(r, id)

ProfileSpec == ProfileInit /\ [][ProfileNext]_vars

\* the behaviours of the middleware chain in front of the handlers
PipelinePayloads ==
  {[firstName |-> <<"A", "n", "a">>],
   [firstName |-> <<"<script>x</script>", "A">>],
   [firstName |-> <<"A", "javascript:">>],
   [firstName |-> <<"o", "n", "onload=">>]}

PipelineNext ==
  \/ \E r \in Slots, method \in {"POST", "PUT"},
        contentType \in {"application/json", "text/plain"}, payload \in PipelinePayloads :
       PipelineReceive(r, method, contentType, payload)
  \/ \E r \in Slots : PassMiddleware(r)
  \/ \E r \in Slots : validateContentType(r)
  \/ \E r \in Slots : sanitizeInput(r)
  \/ \E r \in Slots : ExpressJson(r)
  \/ \E r \in Slots : validateRequest(r)

PipelineSpec == Init /\ [][PipelineNext]_vars

\* the behaviours of all the handlers together, on the few inputs that
\* bring out each error answer
ErrorBodies ==
  {CreateBody(EmailA, NatId1, DobAdult), CreateBody(EmailB, NatId2, DobAdult),
   CreateBody(EmailNoAt, NatId2, DobAdult)}
ErrorPatches == {[email |-> EmailA], [firstName |-> "Bea"], [status |-> "active"]}
ErrorDocBodies == {[type |-> "passport", filename |-> FileA], [type |-> "selfie", filename |-> FileA]}
ErrorQueries == {[limit |-> 0], [status |-> "inactive"]}

ErrorNext ==
  \/ \E r \in Slots, body \in ErrorBodies : RegisterCheck(r, body)
  \/ \E r \in Slots : RegisterSave(r)
  \/ \E r \in Slots, id \in Ids, patch \in ErrorPatches : UpdateCheck(r, id, patch)
  \/ \E r \in Slots : UpdateWrite(r)
  \/ \E r \in Slots, id \in Ids, body \in ErrorDocBodies : AddDocFind(r, id, body)
  \/ \E r \in Slots : AddDocSave(r)
  \/ \E r \in Slots, id \in Ids : SoftDelete(r, id)
  \/ \E r \in Slots, id \in Ids : GetById(r, id)
  \/ \E r \in Slots, nationalId \in {NatId1, NatIdShort} : GetByNationalId(r, nationalId)
  \/ \E r \in Slots, id \in Ids : GetAccountsFind(r, id)
  \/ \E r \in Slots, outcome \in AccountsOutcomes : GetAccountsReturn(r, outcome)
  \/ \E r \in Slots, query \in ErrorQueries : SearchCount(r, query)
  \/ \E r \in Slots : SearchFind(r)
  \/ \E k \in 1..MaxTasks : ComplianceSend(k)
  \/ \E k \in 1..MaxTasks, outcome \in ComplianceOutcomes : ComplianceReturn(k, outcome)

ErrorSpec == Init /\ [][ErrorNext]_vars

\* =============================================================== claims
InFlightCount == Cardinality({r \in Slots : req[r].pc # "idle"})
\* a response is sent in this step
Responds == served' - InFlightCount' = served - InFlightCount + 1
\* request r, suspended at an await, gets its response in this step
Completes(r, op) == req[r].pc = op /\ req'[r].pc = "idle"
\* slot r took a request for `op` in this step: true of every step of the
\* action that receives op's requests in slot r
Received(r, op) ==
  /\ req[r].pc = "idle" /\ served' = served + 1
  /\ req'[r].pc = op \/ last'.op = op

\* the validation result of every register body
Validated == [body \in RegisterBodies |-> CreateValidate(body)]

IsPrefix(s, t) == Len(s) <= Len(t) /\ SubSeq(t, 1, Len(s)) = s
HasUpper(s) == \E i \in DOMAIN s : s[i] \in Upper
Padded(s) == s # <<>> /\ (s[1] = " " \/ s[Len(s)] = " ")

\* C1: in every reachable state no two stored records, inactive ones
\* included, have the same normalized email or the same nationalId.
C1_UniqueEmailAndNationalId ==
  \A i, j \in DOMAIN db :
    i # j => /\ ToLower(Trim(db[i].email)) # ToLower(Trim(db[j].email))
             /\ db[i].nationalId # db[j].nationalId

\* two records are stored and the last request, an update that tried to take
\* the other record's email, was refused
C1_Witness ==
  /\ Len(db) = 2
  /\ last.op = "update" /\ last.status \in {409, 500}
  /\ \E i \in DOMAIN db : db[i].status = "pending_verification"

\* C2: two register requests with the same email and different nationalIds
\* end with one 201 and one 409 that names the email, in either order and
\* under any interleaving: the request that finds the email stored, at its
\* lookup or (having passed the lookup before the other's insert) at its own
\* insert, is answered 409 naming email and stores nothing.
C2_SameEmailOneSuccessOneConflict ==
  [][\A r \in Slots :
       /\ Received(r, "register") => \A body \in RegisterBodies :
            (/\ ~Validated[body].error
             /\ \E i \in DOMAIN db : db[i].email = ToLower(Trim(body.email))
             /\ \A i \in DOMAIN db : db[i].nationalId # Trim(body.nationalId)
             /\ RegisterCheck(r, body))
              => last' = Response("register", 409, "email", 0, Nothing) /\ db' = db
       /\ (/\ RegisterSave(r)
           /\ MongooseDobValid(req[r].value.dateOfBirth, Today)
           /\ \E i \in DOMAIN db : db[i].email = req[r].value.email
           /\ \A i \in DOMAIN db : db[i].nationalId # req[r].value.nationalId)
            => last' = Response("register", 409, "email", 0, Nothing) /\ db' = db
    ]_vars

\* C3: a register whose email or nationalId is that of a stored record is
\* answered 409, stores no record and schedules no compliance request, and
\* the field the answer names collides: email when the record the lookup
\* returned has the submitted email, else nationalId.
C3_CollisionRefused ==
  [][\A r \in Slots : Received(r, "register") => \A body \in RegisterBodies :
       LET v == Validated[body]
           byEmail == {i \in DOMAIN db : db[i].email = v.value.email}
           byNationalId == {i \in DOMAIN db : db[i].nationalId = v.value.nationalId}
       IN (~v.error /\ byEmail \cup byNationalId # {} /\ RegisterCheck(r, body))
            => /\ last'.op = "register" /\ last'.status = 409
               /\ req'[r] = Idle
               /\ db' = db /\ tasks' = tasks
               /\ last'.field \in {"email", "nationalId"}
               /\ last'.field = "email" => byEmail # {}
               /\ last'.field = "nationalId" => byNationalId # {}
               /\ byNationalId \subseteq byEmail => last'.field = "email"
               /\ byEmail = {} => last'.field = "nationalId"
    ]_vars

\* a register was refused at its lookup for its nationalId (in development a
\* refusal by the store's index is answered 500, so this 409 is the lookup's)
C3_Witness ==
  /\ env = "development"
  /\ last.op = "register" /\ last.status = 409 /\ last.field = "nationalId"
  /\ Len(db) = 1 /\ Len(tasks) = 1

C5_EmailNormalized ==
  [][\A r \in Slots :
       /\ Received(r, "register") => \A body \in RegisterBodies :
            (~Validated[body].error /\ RegisterCheck(r, body))
              => LET e == ToLower(Trim(body.email))
                 IN IF \E i \in DOMAIN db : db[i].email = e
                    THEN last'.op = "register" /\ last'.status = 409 /\ db' = db
                    ELSE req'[r].pc = "register" => req'[r].value.email = e
       /\ (RegisterSave(r) /\ last'.status = 201)
            => /\ last'.data.email = req[r].value.email
               /\ db'[Len(db')].email = req[r].value.email
               /\ ~HasUpper(last'.data.email) /\ ~Padded(last'.data.email)
    ]_vars

\* the record registered as "A@X.co" is stored as "a@x.co", and a later
\* register was refused at its lookup for that email
C5_Witness ==
  /\ env = "development"
  /\ Len(db) = 1
  /\ db[1].firstName = "Eve" /\ db[1].nationalId = NatId2 /\ db[1].email = EmailA
  /\ last.op = "register" /\ last.status = 409 /\ last.field = "email"

\* the age in whole years: the year difference, less one when this year's
\* birthday is still to come
CalendarAge(dob, today) ==
  today.y - dob.y
    - (IF today.m < dob.m \/ (today.m = dob.m /\ today.d < dob.d) THEN 1 ELSE 0)

\* C6: register refuses a dateOfBirth (400) exactly when it is in the future
\* or the calendar age is outside 18..120, and a registration whose
\* dateOfBirth the create schema accepted is not refused by the store's own
\* dateOfBirth validator: with a free email and nationalId it succeeds.
C6_DateOfBirthRule ==
  [][\A r \in Slots :
       /\ Received(r, "register") => \A body \in RegisterBodies :
            (/\ ~Validated[[body EXCEPT !.dateOfBirth = DobAdult]].error
             /\ RegisterCheck(r, body))
              => ((last' = Response("register", 400, NULL, 0, Nothing) /\ req'[r] = Idle)
                    <=> ~(/\ DateLeq(body.dateOfBirth, Today)
                          /\ CalendarAge(body.dateOfBirth, Today) >= 18
                          /\ CalendarAge(body.dateOfBirth, Today) <= 120))
       /\ (/\ RegisterSave(r)
           /\ MongooseEmailMatch(req[r].value.email)
           /\ \A i \in DOMAIN db : /\ db[i].email # req[r].value.email
                                   /\ db[i].nationalId # req[r].value.nationalId)
            => /\ last'.op = "register" /\ last'.status = 201
               /\ Len(db') = Len(db) + 1
               /\ db'[Len(db')].dateOfBirth = req[r].value.dateOfBirth
    ]_vars

\* C7: a register that passed validation and the uniqueness check answers
\* 201 with the record it stored in the step that schedules the compliance
\* request, and whatever the collaborator then answers (success, timeout,
\* refused connection, 4xx, 5xx, malformed body) the response sent is not
\* touched and every record stays stored, the compliance fields apart.
C7_RegisterIndependentOfCompliance ==
  [][/\ \A r \in Slots :
          (RegisterSave(r) /\ last'.status = 201)
            => /\ last'.data = db'[last'.id]
               /\ last'.data.complianceStatus = "pending"
               /\ Len(tasks') = Len(tasks) + 1
               /\ tasks'[Len(tasks')].customerId = last'.id
               /\ tasks'[Len(tasks')].stage = "scheduled"
     /\ \A k \in DOMAIN tasks, outcome \in ComplianceOutcomes :
          ComplianceReturn(k, outcome)
            => /\ last' = last /\ req' = req
               /\ Len(db') = Len(db)
               /\ \A i \in DOMAIN db :
                    [db'[i] EXCEPT !.complianceStatus = db[i].complianceStatus,
                                   !.complianceNotes = db[i].complianceNotes,
                                   !.complianceCheckedAt = db[i].complianceCheckedAt] = db[i]
               /\ outcome.kind # "success" => db' = db
    ]_vars

\* a register was answered 201, its compliance check has come back without a
\* result, and the record is stored as it was returned
C7_Witness ==
  /\ last.op = "register" /\ last.status = 201
  /\ tasks = <<>>
  /\ db[last.id] = last.data

\* C8: an update whose patch has any of nationalId, dateOfBirth, documents,
\* status, complianceStatus, emailVerified, phoneVerified, identityVerified
\* (equal to the stored value or not, alone or beside valid fields), or has
\* no updatable field, is answered 400 and changes no record: a step that
\* is not such an answer is not the handling of such a patch.
C8_ProtectedFieldsRejected ==
  [][\A r \in Slots, patch \in UpdatePatches :
       (/\ Received(r, "update")
        /\ \/ DOMAIN patch \cap {"nationalId", "dateOfBirth", "documents", "status",
                                 "complianceStatus", "emailVerified", "phoneVerified",
                                 "identityVerified"} # {}
           \/ DOMAIN patch \cap {"firstName", "email"} = {}
        /\ ~(/\ last' = Response("update", 400, NULL, 0, Nothing)
             /\ req'[r] = Idle
             /\ db' = db /\ tasks' = tasks))
         => \A id \in Ids : ~UpdateCheck(r, id, patch)
    ]_vars

\* an update was refused with 400 while a record was stored whose protected
\* fields have the values the refused patches submit
C8_Witness ==
  /\ last.op = "update" /\ last.status = 400
  /\ \E i \in DOMAIN db :
       /\ db[i].nationalId = ForbiddenValues.nationalId
       /\ db[i].status = ForbiddenValues.status
       /\ db[i].complianceStatus = ForbiddenValues.complianceStatus

\* C9: an update of a record's email to e, for an e that the update schema
\* and the store's pattern both accept, is answered 409 and changes nothing
\* when another record holds e, at the lookup or (e having been taken since
\* the lookup) at the write; it succeeds when e is the record's own email;
\* and it is answered 404 when no record has the id and e is free.
C9_UpdateEmailConflict ==
  [][\A r \in Slots :
       /\ Received(r, "update") => \A id \in Ids, patch \in UpdatePatches :
            (/\ IdValid(id) /\ "email" \in DOMAIN patch
             /\ ~UpdateValidate(patch).error
             /\ \E i \in DOMAIN db : i # id /\ db[i].email = ToLower(Trim(patch.email))
             /\ UpdateCheck(r, id, patch))
              => /\ last' = Response("update", 409, "email", 0, Nothing)
                 /\ req'[r] = Idle /\ db' = db
       /\ (UpdateWrite(r) /\ MongooseEmailMatch(req[r].value.email))
            => LET id == req[r].id
                   e == req[r].value.email
                   taken == \E i \in DOMAIN db : i # id /\ db[i].email = e
               IN /\ (id \in DOMAIN db /\ taken)
                       => last' = Response("update", 409, "email", 0, Nothing) /\ db' = db
                  /\ (id \in DOMAIN db /\ db[id].email = e)
                       => last'.op = "update" /\ last'.status = 200 /\ db'[id].email = e
                  /\ (id \notin DOMAIN db /\ ~taken)
                       => last'.op = "update" /\ last'.status = 404 /\ db' = db
    ]_vars

\* C10: no record is ever removed and a record's documents list only grows
\* at its end: each step leaves it a prefix of what it becomes, and a step
\* that changes it is the successful end of an addDocument for that record,
\* which adds one document; no update step changes it.
C10_DocumentsAppendOnly ==
  [][/\ Len(db) <= Len(db')
     /\ \A i \in DOMAIN db :
          /\ IsPrefix(db[i].documents, db'[i].documents)
          /\ db'[i].documents # db[i].documents
               => /\ \E r \in Slots : Completes(r, "addDocument") /\ req[r].id = i
                  /\ last'.op = "addDocument" /\ last'.status = 200 /\ last'.id = i
                  /\ Len(db'[i].documents) = Len(db[i].documents) + 1
     /\ \A r \in Slots :
          (UpdateWrite(r) \/ Received(r, "update"))
            => \A i \in DOMAIN db : db'[i].documents = db[i].documents
    ]_vars

\* two addDocument requests that both loaded the record before either saved
\* have both been stored
C10_Witness ==
  /\ last.op = "addDocument" /\ last.status = 200
  /\ Len(db[last.id].documents) = 2
  /\ db[last.id].documents[1] # db[last.id].documents[2]

\* C11: a successful addDocument on a record that holds n documents leaves
\* it with n+1: the n it held, unchanged, then one with the submitted type and
\* (trimmed) filename, verified false and the server's uploadDate, whatever
\* verified or uploadDate the body carried; no other record changes.
C11_AddDocumentAppendsOne ==
  [][\A r \in Slots :
       /\ Received(r, "addDocument") => \A id \in Ids, body \in AddDocBodies :
            (AddDocFind(r, id, body) /\ req'[r].pc = "addDocument")
              => req'[r].document = [type |-> body.type, filename |-> Trim(body.filename)]
       /\ (AddDocSave(r) /\ last'.status = 200)
            => /\ db' = [db EXCEPT ![req[r].id].documents =
                          Append(@, [type |-> req[r].document.type,
                                     filename |-> req[r].document.filename,
                                     uploadDate |-> "server",
                                     verified |-> FALSE,
                                     verifiedBy |-> NULL])]
               /\ Len(db'[req[r].id].documents) = Len(db[req[r].id].documents) + 1
               /\ last'.op = "addDocument" /\ last'.id = req[r].id
    ]_vars

\* the document of the body that carried verified = true and its own
\* uploadDate is stored unverified with the server's date
C11_Witness ==
  /\ last.op = "addDocument" /\ last.status = 200
  /\ \E i \in DOMAIN db[last.id].documents :
       /\ db[last.id].documents[i].filename = FileClient
       /\ db[last.id].documents[i].verified = FALSE
       /\ db[last.id].documents[i].uploadDate = "server"

\* C12: an addDocument schedules a compliance request exactly when it
\* succeeds and the document's type is national_id, passport or
\* driving_license (none for address_proof, income_proof, other, and none
\* for a request that fails), and that request's document list holds the
\* document just added.
C12_IdentityDocumentTriggers ==
  [][\A r \in Slots :
       /\ Received(r, "addDocument") => tasks' = tasks
       /\ AddDocSave(r)
            => IF /\ last'.status = 200
                  /\ req[r].document.type \in {"national_id", "passport", "driving_license"}
               THEN /\ Len(tasks') = Len(tasks) + 1
                    /\ SubSeq(tasks', 1, Len(tasks)) = tasks
                    /\ LET t == tasks'[Len(tasks')]
                       IN /\ t.customerId = req[r].id /\ t.origin = "addDocument"
                          /\ \E i \in DOMAIN t.documents : t.documents[i] = req[r].document
               ELSE tasks' = tasks
    ]_vars

\* a passport was added and its compliance request is the only one pending
C12_Witness ==
  /\ last.op = "addDocument" /\ last.status = 200
  /\ Len(tasks) = 1
  /\ tasks[1].origin = "addDocument"
  /\ \E i \in DOMAIN tasks[1].documents : tasks[1].documents[i].type = "passport"

\* C13: softDelete of an existing customer answers success the first time
\* and every time after, and after each the record's status is inactive and
\* every other field of it, and every other record, is as before; a repeated
\* softDelete changes nothing at all.
C13_SoftDeleteIdempotent ==
  [][\A r \in Slots : Received(r, "softDelete") => \A id \in Ids :
       (id \in DOMAIN db /\ SoftDelete(r, id))
         => /\ last' = Response("softDelete", 200, NULL, id, Nothing)
            /\ db'[id].status = "inactive"
            /\ db' = [db EXCEPT ![id].status = "inactive"]
            /\ db[id].status = "inactive" => db' = db
            /\ tasks' = tasks
    ]_vars

\* the only record is inactive and the third request served was a successful
\* softDelete of it
C13_Witness ==
  /\ served = 3 /\ Len(db) = 1
  /\ db[1].status = "inactive"
  /\ last = Response("softDelete", 200, NULL, 1, Nothing)

\* C19: through every step a stored record keeps its place (its id), its
\* nationalId, its dateOfBirth and its emailVerified, phoneVerified and
\* identityVerified.
C19_IdentityFieldsImmutable ==
  [][/\ Len(db) <= Len(db')
     /\ \A i \in DOMAIN db :
          /\ db'[i].nationalId = db[i].nationalId
          /\ db'[i].dateOfBirth = db[i].dateOfBirth
          /\ db'[i].emailVerified = db[i].emailVerified
          /\ db'[i].phoneVerified = db[i].phoneVerified
          /\ db'[i].identityVerified = db[i].identityVerified
    ]_vars

\* a record has been renamed by an update, approved by a compliance check and
\* deactivated, and still has its nationalId and its flags
C19_Witness ==
  \E i \in DOMAIN db :
    /\ db[i].firstName = "Bea"
    /\ db[i].complianceStatus = "approved"
    /\ db[i].status = "inactive"
    /\ db[i].nationalId = NatId1
    /\ ~db[i].emailVerified /\ ~db[i].phoneVerified /\ ~db[i].identityVerified

\* the compliance requests that have gone out and are unanswered
SentTasks == {k \in DOMAIN tasks : tasks[k].stage = "sent"}

\* C20: the compliance request of a register or of a triggering addDocument
\* goes out only after that call's response: the step that sends the response
\* only schedules the request, and a step in which a request goes out sends
\* no response and handles no request; so the register response, and the
\* record at that moment, show complianceStatus pending.
C20_ComplianceAfterResponse ==
  [][/\ Len(tasks') > Len(tasks)
          => /\ \E r \in Slots : Completes(r, "register") \/ Completes(r, "addDocument")
             /\ last'.status \in {200, 201}
             /\ tasks'[Len(tasks')].customerId = last'.id
             /\ tasks'[Len(tasks')].origin = last'.op
             /\ tasks'[Len(tasks')].stage = "scheduled"
             /\ Cardinality(SentTasks') = Cardinality(SentTasks)
     /\ Cardinality(SentTasks') > Cardinality(SentTasks)
          => /\ req' = req /\ last' = last /\ served' = served /\ db' = db
             /\ Len(tasks') = Len(tasks)
     /\ \A r \in Slots :
          (RegisterSave(r) /\ last'.status = 201)
            => /\ last'.data.complianceStatus = "pending"
               /\ db'[last'.id].complianceStatus = "pending"
    ]_vars

\* the request of the register answered last has gone out, and the record
\* still shows what the response showed
C20_Witness ==
  /\ last.op = "register" /\ last.status = 201
  /\ \E k \in DOMAIN tasks :
       /\ tasks[k].stage = "sent"
       /\ tasks[k].origin = "register" /\ tasks[k].customerId = last.id
  /\ db[last.id] = last.data

\* C14: no operation removes a record: the stored ids never shrink; getById
\* and getByNationalId return a record whatever its status, so also after
\* softDelete; and a register whose email or nationalId belongs to an
\* inactive record is answered 409 and stores nothing.
C14_RecordsNeverRemoved ==
  [][/\ DOMAIN db \subseteq DOMAIN db'
     /\ \A r \in Slots :
          /\ Received(r, "getById") => \A id \in DOMAIN db :
               GetById(r, id) => last' = Response("getById", 200, NULL, id, db[id])
          /\ Received(r, "getByNationalId") => \A nationalId \in RawNatIds :
               (/\ \E i \in DOMAIN db : db[i].nationalId = nationalId
                /\ GetByNationalId(r, nationalId))
               => /\ last'.status = 200
                  /\ last'.id \in DOMAIN db
                  /\ last'.data = db[last'.id]
                  /\ last'.data.nationalId = nationalId
          /\ Received(r, "register") => \A body \in ReadBodies :
               (/\ ~CreateValidate(body).error
                /\ \E i \in DOMAIN db :
                     /\ db[i].status = "inactive"
                     /\ \/ db[i].email = CreateValidate(body).value.email
                        \/ db[i].nationalId = CreateValidate(body).value.nationalId
                /\ RegisterCheck(r, body))
               => /\ last'.op = "register"
                  /\ last'.status = 409
                  /\ db' = db]_vars

\* a deactivated record has been returned by getById
C14_Witness ==
  /\ last.op = "getById"
  /\ last.status = 200
  /\ last.data.status = "inactive"
  /\ last.id \in DOMAIN db
  /\ db[last.id].status = "inactive"

\* the answers on which the accounts gateway gives up: no connection, no
\* answer in time, a server error, another error status, an error raised
\* outside the HTTP client
FailedLookups == {"refused", "timeout", "status500", "status401", "notAxios"}

\* C15: getAccounts for a well-formed id with no record is answered 404 and
\* no call of the accounts collaborator is left pending; for an existing
\* customer whose call fails it is answered 503; neither step changes a
\* stored record, and a getById that follows returns the stored record.
C15_AccountsLookupErrors ==
  [][\A r \in Slots :
       /\ Received(r, "getAccounts") => \A id \in Ids :
            (IdValid(id) /\ id \notin DOMAIN db /\ GetAccountsFind(r, id))
            => /\ last' = Response("getAccounts", 404, NULL, 0, Nothing)
               /\ req'[r] = Idle
               /\ db' = db
       /\ Completes(r, "getAccounts") => \A outcome \in AccountsOutcomes :
            (outcome.kind \in FailedLookups /\ GetAccountsReturn(r, outcome))
            => /\ last'.op = "getAccounts"
               /\ last'.status = 503
               /\ db' = db
               /\ tasks' = tasks
       /\ (/\ last.op = "getAccounts"
           /\ last.status \in {404, 503}
           /\ Received(r, "getById")) => \A id \in DOMAIN db :
            GetById(r, id) => last' = Response("getById", 200, NULL, id, db[id])]_vars

\* the accounts lookup of an existing customer has been answered 503
C15_Witness ==
  /\ last.op = "getAccounts"
  /\ last.status = 503
  /\ db # <<>>
  /\ \A r \in Slots : req[r].pc # "getAccounts"

\* C16: getAccounts answers 200 with an empty list only when the collaborator
\* answered 404 or answered successfully with no accounts; every other
\* failure to obtain a valid list is answered with an error.
C16_EmptyListOnlyWhenNoAccounts ==
  [][\A r \in Slots : Completes(r, "getAccounts") => \A outcome \in AccountsOutcomes :
       (/\ GetAccountsReturn(r, outcome)
        /\ last'.status = 200
        /\ last'.data.accounts = <<>>)
       => \/ outcome.kind \in {"status404", "successNoData"}
          \/ outcome = [kind |-> "success", data |-> <<>>]]_vars

\* the k-th newest of a set of records
RankedId(ids, k) == CHOOSE i \in ids : Cardinality({j \in ids : j > i}) = k - 1

\* C17: with total the number of matching records, page >= 1 and limit in
\* 1..100, search answers the matching records ranked (page-1)*limit+1 to
\* min(page*limit, total), newest first (none past the last page), with
\* totalItems = total, totalPages = ceil(total/limit), hasNextPage exactly
\* when page < totalPages and hasPreviousPage exactly when page > 1; limit 10
\* and page 2 give the records ranked 11 to 20. Total is the number the
\* handler counted, which is also the number matching when the page is read.
C17_SearchPage ==
  [][\A r \in Slots :
       (/\ Completes(r, "search")
        /\ req[r].totalCount = Cardinality(Matching(db, req[r].query))
        /\ req[r].query.page >= 1
        /\ req[r].query.limit \in MinLimit..MaxLimit
        /\ SearchFind(r))
       => LET page == req[r].query.page
              limit == req[r].query.limit
              matching == Matching(db, req[r].query)
              total == Cardinality(matching)
              first == (page - 1) * limit + 1
              final == IF page * limit <= total THEN page * limit ELSE total
              n == IF final >= first THEN final - first + 1 ELSE 0
              items == last'.data.items
              pagination == last'.data.pagination
          IN /\ last'.op = "search"
             /\ last'.status = 200
             /\ Len(items) = n
             /\ \A k \in 1..n :
                  LET id == RankedId(matching, first + k - 1)
                  IN /\ items[k].id = id
                     /\ \A f \in DOMAIN db[id] \ {"documents"} : items[k][f] = db[id][f]
             /\ pagination.currentPage = page
             /\ pagination.itemsPerPage = limit
             /\ pagination.totalItems = total
             /\ pagination.totalPages * limit >= total
             /\ pagination.totalPages = 0 \/ (pagination.totalPages - 1) * limit < total
             /\ pagination.hasNextPage <=> page < pagination.totalPages
             /\ pagination.hasPreviousPage <=> page > 1
             /\ (limit = 10 /\ page = 2 /\ total >= 20)
                => [k \in 1..10 |-> items[k].id]
                     = [k \in 1..10 |-> RankedId(matching, 10 + k)]]_vars

\* page 2 of 10 has been answered with ten records out of more than twenty
C17_Witness ==
  /\ last.op = "search"
  /\ last.status = 200
  /\ last.data.pagination.currentPage = 2
  /\ last.data.pagination.itemsPerPage = 10
  /\ last.data.pagination.totalItems > 20
  /\ Len(last.data.items) = 10
  /\ last.data.pagination.hasNextPage
  /\ last.data.pagination.hasPreviousPage

\* the limit brought into MinLimit..MaxLimit
Clamped(limit) ==
  IF limit < MinLimit THEN MinLimit ELSE IF limit > MaxLimit THEN MaxLimit ELSE limit

\* C18: a search that carries no page and no limit is served with page 1 and
\* limit 10, and a search whose limit is outside 1..100 is served with the
\* limit clamped into 1..100.
C18_SearchDefaultsAndClamp ==
  [][\A r \in Slots : Received(r, "search") => \A query \in SearchQueries :
       (/\ "page" \in DOMAIN query => query.page >= 1
        /\ SearchCount(r, query))
       => /\ req'[r].pc = "search"
          /\ req'[r].query.page = IF "page" \in DOMAIN query THEN query.page ELSE 1
          /\ req'[r].query.limit
               = IF "limit" \in DOMAIN query THEN Clamped(query.limit) ELSE 10]_vars

ComplianceFields(customer) ==
  <<customer.complianceStatus, customer.complianceNotes, customer.complianceCheckedAt>>

\* C21: complianceStatus, complianceNotes and complianceCheckedAt of a stored
\* record change only in the step in which the callback persists a
\* successful compliance result for that record; every other step (update,
\* addDocument, softDelete, register of another customer) leaves them alone.
C21_ComplianceFieldsFrame ==
  [][\A i \in DOMAIN db :
       ComplianceFields(db'[i]) # ComplianceFields(db[i])
       => \E k \in DOMAIN tasks :
            /\ tasks[k].customerId = i
            /\ tasks[k].stage = "sent"
            /\ tasks' = RemoveAt(tasks, k)
            /\ req' = req
            /\ \E outcome \in ComplianceOutcomes :
                 /\ outcome.kind = "success"
                 /\ ComplianceFields(db'[i]) = <<outcome.status, "notes", "checked">>]_vars

\* a record whose check succeeded has since been deactivated and still
\* shows the result
C21_Witness ==
  \E i \in DOMAIN db :
    /\ db[i].complianceNotes = "notes"
    /\ db[i].complianceCheckedAt = "checked"
    /\ db[i].status = "inactive"
    /\ last.op = "softDelete"
    /\ last.status = 200

StageCount(t, stage) == Cardinality({k \in DOMAIN t : t[k].stage = stage})

C23_GatewayNeverRaises ==
  [][\A k \in DOMAIN tasks : tasks[k].stage = "sent" =>
       \A outcome \in ComplianceOutcomes :
         (outcome.kind # "success" /\ ComplianceReturn(k, outcome))
         => /\ ~triggerComplianceCheck(outcome).raised
            /\ triggerComplianceCheck(outcome).result = Nothing]_vars

\* the parts of a record that a patch does not mention are the same in both
Untouched(old, new, patch) ==
  /\ \A k \in DOMAIN old \ DOMAIN patch : new[k] = old[k]
  /\ "preferences" \in DOMAIN patch =>
       /\ \A f \in {"language", "currency", "marketingConsent"} \ DOMAIN patch.preferences :
            new.preferences[f] = old.preferences[f]
       /\ \A f \in {"email", "sms"} :
            (\/ "notificationPreferences" \notin DOMAIN patch.preferences
             \/ f \notin DOMAIN patch.preferences.notificationPreferences)
            => new.preferences.notificationPreferences[f]
                 = old.preferences.notificationPreferences[f]
  /\ ("address" \in DOMAIN patch /\ "country" \notin DOMAIN patch.address) =>
       new.address.country = old.address.country

\* C24: a successful update changes the profile fields the patch names and
\* nothing else: every other field keeps its value, and so do the country
\* of the address and the language, currency, notification flags and
\* marketingConsent of the preferences when the patch does not mention them.
C24_UpdateChangesNamedFieldsOnly ==
  [][\A r \in Slots : Received(r, "update") => \A id \in DOMAIN db, patch \in ProfilePatches :
       (UpdateCheck(r, id, patch) /\ last'.op = "update" /\ last'.status = 200)
       => /\ Untouched(db[id], db'[id], patch)
          /\ last'.data = db'[id]
          /\ \A i \in DOMAIN db \ {id} : db'[i] = db[i]]_vars

\* C25: in the pipeline of every POST and PUT the sanitizer is applied to
\* the parsed JSON body before the validation middleware reads it, so the
\* body the validator reads is the sanitized payload.
C25_SanitizedBeforeValidation ==
  [][\A r \in Slots : validateRequest(r)
       => /\ req[r].sanitized
          /\ req'[r].read = sanitizeObject(req[r].payload)]_vars

C27_ComplianceStatusInEnum ==
  \A i \in DOMAIN db : db[i].complianceStatus \in {"pending", "approved", "rejected", "under_review"}

C29_NoVerifiedDocuments ==
  \A i \in DOMAIN db : \A j \in DOMAIN db[i].documents :
    /\ ~db[i].documents[j].verified
    /\ db[i].documents[j].verifiedBy = NULL

\* C30: when the check triggered by register and the check triggered by a
\* later addDocument of the same customer are both in flight and both
\* succeed, the record ends with the result of the later one: the result of
\* the register check, arriving after the other was stored, does not
\* replace it.
C30_LatestCheckWins ==
  [][\A k \in DOMAIN tasks : (tasks[k].stage = "sent" /\ tasks[k].origin = "register") =>
       \A outcome \in ComplianceOutcomes :
         (/\ outcome.kind = "success"
          /\ outcome.status \in ComplianceStatuses
          /\ db[tasks[k].customerId].complianceCheckedAt # NULL
          /\ db[tasks[k].customerId].complianceStatus \in ComplianceStatuses
          /\ ComplianceReturn(k, outcome))
         => db'[tasks[k].customerId].complianceStatus
              = db[tasks[k].customerId].complianceStatus]_vars

====
